---- MODULE Spec2Model ----
(***************************************************************************)
(* State-machine model of the DD Utility CLI (src/DD-CLI.py, src/dd.py):   *)
(* the main menu loop, the confirmation gate of every catalog operation,   *)
(* the supervised dd runs (execute_dd, secure_erase, create_disk_image),   *)
(* the operator interrupt (KeyboardInterrupt -> cancel_operation) and the  *)
(* dd child processes, which run concurrently with the supervising thread. *)
(***************************************************************************)
EXTENDS Integers, Sequences, FiniteSets, TLC

\* ------------------------------------------------------------------ bounds
\* Child handles that can be live (running, un-reaped or still referenced)
\* at the same time; a reaped handle nobody references is recycled.
MaxChildren == 2
\* Progress lines matching "<N> bytes" that one invocation parses.
MaxSamples == 2

\* ------------------------------------------------------- program constants
\* Exit status Popen reports for a child killed by SIGTERM.
SIGTERM_RC == 0 - 15
\* secure_erase: passes of erase methods '1', '2', '3'.
PassChoices == {1, 3, 7}
\* blockdev --getsize64 / os.path.getsize results handed to the operations
\* (0: empty file or empty device).
TotalSizes == {0, 4}
\* Byte counts the dd child reports on its status stream.
ByteCounts == {2, 4, 8}
NoMatch == 0 - 1

Children == 1 .. MaxChildren
None == 0

ExecOps == {"file_to_disk", "disk_to_disk"}
SupervisedOps == ExecOps \cup {"secure_erase", "create_disk_image"}
\* Operations of DD-CLI.py's menu that run external commands to completion.
ToolOps == {"create_virtual_disk", "create_partition_table_and_partition",
            "create_partition_on_existing_disk", "create_partition_table",
            "format_disk"}
\* format_disk of DD-CLI.py and of dd.py (its LUKS branch closes the mapping
\* in the error handler).
FormatOps == {"format_disk", "dd.py:format_disk"}
\* create_virtual_disk of DD-CLI.py (dd, losetup) and of dd.py (dd, filesystem
\* prompt, losetup, mkfs, losetup -d).
VDiskOps == {"create_virtual_disk", "dd.py:create_virtual_disk"}
\* The operations that attach a loop device or open a LUKS mapping, in both
\* files.
DeviceOps == VDiskOps \cup FormatOps
\* The menu of DD-CLI.py.
Catalog == SupervisedOps \cup ToolOps

\* External programs that modify a device or file when started.
DestructiveTools == {"dd", "parted", "mkfs", "cryptsetup luksFormat",
                     "cryptsetup open", "cryptsetup close", "losetup -f --show",
                     "losetup --find --show", "losetup -d"}

\* ------------------------------------------------- confirm_operation input
\* Answers typed at the confirmation prompt, as character sequences.
Answers == { <<"y">>, <<" ", "Y", " ">>, <<"n">>, <<>>, <<"y", "e", "s">> }

IsSpace(ch) == ch = " "

RECURSIVE LStrip(_)
LStrip(s) == IF s # <<>> /\ IsSpace(Head(s)) THEN LStrip(Tail(s)) ELSE s

RECURSIVE RStrip(_)
RStrip(s) ==
  IF s # <<>> /\ IsSpace(s[Len(s)]) THEN RStrip(SubSeq(s, 1, Len(s) - 1)) ELSE s

\* str.strip()
Strip(s) == RStrip(LStrip(s))

LowerChar(ch) == IF ch = "Y" THEN "y" ELSE IF ch = "N" THEN "n" ELSE ch

\* str.lower()
Lower(s) == [j \in 1 .. Len(s) |-> LowerChar(s[j])]

\* A confirmation that takes every answer but 'n' as consent.
confirm_operation_default_yes(answer) == Lower(Strip(answer)) # <<"n">>

\* confirm_operation: input(...).strip().lower() == 'y'
confirm_operation(answer) == Lower(Strip(answer)) = <<"y">>

\* ------------------------------------------------------------------- state
VARIABLES
  pc,            \* position of the main thread
  op,            \* catalog operation being executed ("none" at the menu before any)
  cancelled,     \* self.cancelled
  process,       \* self.process: None or a child handle
  cur,           \* child of the current (most recent) supervised run
  cstate,        \* per handle: "free", "running", "zombie" (exited, not waited), "reaped"
  cterm,         \* per handle: a terminate request was sent while it was running
  crc,           \* per handle: exit status once exited
  total_size,    \* self.total_size
  passes,        \* secure_erase: number of passes chosen
  i,             \* secure_erase: index of the current pass
  selected,      \* format_disk: filesystem selected
  k,             \* index of the next external command of a tool operation
  imageExists,   \* a file exists at self.image_path
  imgChild,      \* the dd child writing self.image_path (None if there is none)
  opened,        \* imgChild has opened (created) its output file
  response,      \* answer given to the confirmation prompt of this invocation
  confirmed,     \* what confirm_operation returned in this invocation ("none": not asked)
  destructive,   \* destructive external programs started in this invocation
  queried,       \* read-only external queries started in this invocation
  reports,       \* classifications printed in this invocation, in order
  diag,          \* diagnostic text of the last failure report
  parsed,        \* progress samples parsed in this invocation
  shown,         \* progress samples delivered to the display in this invocation
  flagAtEntry,   \* self.cancelled was set when the supervised run was entered
  intrRun,       \* an operator interrupt hit this invocation while its child was running
  cancelReq,     \* the child that was running when cancellation was requested
  cleanup,       \* the partial-image cleanup code ran in this invocation
  deleted,       \* this invocation removed the file at self.image_path
  vdisk,         \* create_virtual_disk: a file exists at its image_path
  started,       \* dd children started by Popen in this invocation
  okPasses,      \* children of this invocation waited for with exit status 0
  lastBytes,     \* copied_bytes of the sample last displayed in the current run
  lastPct,       \* percentage last delivered to the display in the current run
  mapperOpen,    \* format_disk: cryptsetup open succeeded, no close issued since
  loopAttached,  \* create_virtual_disk: losetup attached a device, no -d issued since
  step,          \* position of the function under study ("idle" in the main loop)
  lineText,      \* update_progress: the line handed to the parser, as characters
  sample,        \* update_progress: copied_bytes parsed from lineText (NoMatch: none)
  disk_details,  \* get_disk_info: the lines printed by lsblk -dpno NAME,SIZE,TYPE,MODEL
  choice,        \* select_disk: the number entered last
  verdict,       \* select_disk: what became of the last entry
  src_disk,      \* disk_to_disk: device returned by the first select_disk
  dest_disk      \* disk_to_disk: device returned by the second select_disk

vars == << pc, op, cancelled, process, cur, cstate, cterm, crc, total_size,
           passes, i, selected, k, imageExists, imgChild, opened, response,
           confirmed, destructive, queried, reports, diag, parsed, shown, flagAtEntry,
           intrRun, cancelReq, cleanup, deleted, vdisk, started, okPasses,
           lastBytes, lastPct, mapperOpen, loopAttached, step, lineText, sample,
           disk_details, choice, verdict, src_disk, dest_disk >>

\* State of the supervised operations and of the menu loop.
mainVars == << pc, op, cancelled, process, cur, cstate, cterm, crc, total_size,
               passes, i, selected, k, imageExists, imgChild, opened, response,
               confirmed, destructive, queried, reports, diag, parsed, shown,
               flagAtEntry, intrRun, cancelReq, cleanup, deleted, vdisk, started,
               okPasses, lastBytes, lastPct, mapperOpen, loopAttached >>
devVars == << mapperOpen, loopAttached >>
\* State of the functions studied on their own (parser, disk selection).
parseVars == << lineText, sample >>
diskVars == << disk_details, choice, verdict, src_disk, dest_disk >>
auxVars == << step, parseVars, diskVars >>

childVars == << cstate, cterm, crc >>
histVars == << flagAtEntry, intrRun, cancelReq, cleanup, deleted >>
countVars == << started, okPasses >>
progVars == << lastBytes, lastPct >>

\* --------------------------------------------------------------- percentages
\* The floating-point percentages of the code, as exact fractions in lowest
\* terms: [num, den] stands for num / den.
RECURSIVE GCD(_, _)
GCD(a, b) == IF b = 0 THEN a ELSE GCD(b, a % b)

Frac(n, d) == [num |-> n \div GCD(n, d), den |-> d \div GCD(n, d)]

\* Nothing displayed yet.
NoPct == [num |-> 0 - 1, den |-> 1]

\* A percentage computed without the min(..., 100).
progress_percentage_unclamped(copied_bytes, total) == Frac(copied_bytes * 100, total)

\* update_progress, create_disk_image:
\* progress_percentage = min((copied_bytes / self.total_size) * 100, 100)
progress_percentage(copied_bytes, total) ==
  IF copied_bytes * 100 <= 100 * total THEN Frac(copied_bytes * 100, total)
  ELSE Frac(100, 1)

\* An overall percentage that forgets the passes already completed.
progress_ignores_pass(idx, copied_bytes, total, n) ==
  Frac(copied_bytes * 100, total * n)

\* secure_erase:
\* progress = (i * 100 + (copied_bytes / self.total_size * 100)) / passes
progress(idx, copied_bytes, total, n) ==
  Frac(idx * 100 * total + copied_bytes * 100, total * n)

\* DDUtilityCLI.__init__ and the first pass through main's menu loop.
MainInit ==
  /\ pc = "menu"
  /\ op = "none"
  /\ cancelled = FALSE
  /\ process = None
  /\ cur = None
  /\ cstate = [c \in Children |-> "free"]
  /\ cterm = [c \in Children |-> FALSE]
  /\ crc = [c \in Children |-> 0]
  /\ total_size = 0
  /\ passes = 0
  /\ i = 0
  /\ selected = "none"
  /\ k = 0
  /\ imageExists = FALSE
  /\ imgChild = None
  /\ opened = FALSE
  /\ response = <<>>
  /\ confirmed = "none"
  /\ destructive = {}
  /\ queried = {}
  /\ reports = <<>>
  /\ diag = ""
  /\ parsed = 0
  /\ shown = 0
  /\ flagAtEntry = FALSE
  /\ intrRun = FALSE
  /\ cancelReq = None
  /\ cleanup = FALSE
  /\ deleted = FALSE
  /\ vdisk = FALSE
  /\ started = 0
  /\ okPasses = 0
  /\ lastBytes = NoMatch
  /\ lastPct = NoPct
  /\ mapperOpen = FALSE
  /\ loopAttached = FALSE

\* No function is being studied on its own.
AuxIdle ==
  /\ step = "idle"
  /\ lineText = <<>>
  /\ sample = NoMatch
  /\ disk_details = <<>>
  /\ choice = 0
  /\ verdict = "none"
  /\ src_disk = <<>>
  /\ dest_disk = <<>>

Init == MainInit /\ AuxIdle

\* ----------------------------------------------------------------- helpers
Running == {c \in Children : cstate[c] = "running"}

\* A terminate() that signals the pid of the handle whatever its state.
Terminate_unconditional(term, c) ==
  IF c # None THEN [term EXCEPT ![c] = TRUE] ELSE term

\* Popen.terminate(): SIGTERM to a child that has not exited; nothing otherwise.
Terminate(term, c) ==
  IF c # None /\ cstate[c] = "running" THEN [term EXCEPT ![c] = TRUE] ELSE term

\* Handles whose child was waited for and that nothing refers to any more.
Unreferenced(st, refs) == {c \in Children : st[c] = "reaped" /\ c \notin refs}

Collect(st, refs) ==
  [c \in Children |-> IF c \in Unreferenced(st, refs) THEN "free" ELSE st[c]]

Forget(f, st, refs, dflt) ==
  [c \in Children |-> IF c \in Unreferenced(st, refs) THEN dflt ELSE f[c]]

\* str(e) of CalledProcessError(returncode, args): never empty.
StrOfError == "Command returned non-zero exit status"

\* error_msg = e.stderr.decode().strip() if e.stderr else str(e)
error_msg(e_stderr) == IF e_stderr # "" THEN e_stderr ELSE StrOfError

\* raise subprocess.CalledProcessError(returncode, args): e.stderr is None.
RaisedStderr == ""

\* External commands a tool operation runs after confirmation, in order.
ToolsOf(o, sel) ==
  CASE o = "create_virtual_disk" -> <<"dd", "losetup -f --show">>
    [] o = "dd.py:create_virtual_disk" ->
         <<"dd", "select_filesystem", "losetup --find --show", "mkfs",
           "losetup -d">>
    [] o = "create_partition_table_and_partition" ->
         <<"parted", "parted", "partprobe", "lsblk">>
    [] o = "create_partition_on_existing_disk" -> <<"parted", "partprobe", "lsblk">>
    [] o = "create_partition_table" -> <<"parted">>
    [] o \in FormatOps ->
         IF sel = "luks" THEN <<"passphrase", "cryptsetup luksFormat",
                                "cryptsetup open", "select_filesystem", "mkfs",
                                "cryptsetup close">>
                         ELSE <<"mkfs">>
    [] OTHER -> <<>>

\* Steps of a tool operation that are prompts, not external commands.
ToolPrompts == {"select_filesystem", "passphrase"}

\* What a prompt prints before it returns from the operation.
PromptDiag(o, tool) ==
  IF tool # "passphrase" THEN "Invalid selection"
  ELSE IF o = "dd.py:format_disk" THEN "Passphrases do not match!"
  ELSE "Passphrase cannot be empty!"

\* Is the LUKS mapping open, with no cryptsetup close issued, after one step of
\* format_disk?  A prompt returns from inside the try block; a failing command
\* runs the CalledProcessError handler, which issues cryptsetup close in dd.py
\* only.
MapperAfter(o, tool, ok, was) ==
  IF tool \in ToolPrompts THEN was
  ELSE IF tool = "cryptsetup close" THEN FALSE
  ELSE IF ~ok THEN (was /\ o # "dd.py:format_disk")
  ELSE IF tool = "cryptsetup open" THEN TRUE
  ELSE was

\* Is a loop device attached to the image, with no losetup -d issued, after one
\* step of create_virtual_disk?
LoopAfter(tool, ok, was) ==
  IF tool = "losetup -d" THEN FALSE
  ELSE IF ok /\ tool \in {"losetup -f --show", "losetup --find --show"} THEN TRUE
  ELSE was

\* Read-only queries an operation runs before its confirmation prompt.
QueriesOf(o) ==
  CASE o \in {"file_to_disk", "secure_erase", "create_disk_image",
              "create_partition_table"} -> {"lsblk"}
    [] o \in {"disk_to_disk", "create_partition_table_and_partition"} ->
         {"lsblk", "blockdev"}
    [] o = "create_partition_on_existing_disk" -> {"lsblk", "parted print free"}
    [] o \in FormatOps -> {"lsblk"}
    [] OTHER -> {}

\* A classification with the exit-status test inverted.
Classify_inverted(isCancelled, rc) ==
  IF isCancelled THEN "cancelled"
  ELSE IF rc # 0 THEN "succeeded"
  ELSE "failed"

\* Classification of one supervised dd run once wait() has returned
\* (execute_dd and create_disk_image: cancelled first, then the exit status).
Classify(isCancelled, rc) ==
  IF isCancelled THEN "cancelled"
  ELSE IF rc = 0 THEN "succeeded"
  ELSE "failed"

\* A final report that ignores the flag.
EraseReport_always_success(isCancelled) == "succeeded"

\* Final report of secure_erase after its pass loop.
EraseReport(isCancelled) == IF isCancelled THEN "cancelled" ELSE "succeeded"

\* ------------------------------------------------------------ main thread
\* main: a menu choice dispatches to one catalog operation.
SelectOp(o) ==
  /\ pc = "menu"
  /\ pc' = "prompt"
  /\ op' = o
  /\ cur' = None
  /\ cstate' = Collect(cstate, {process})
  /\ cterm' = Forget(cterm, cstate, {process}, FALSE)
  /\ crc' = Forget(crc, cstate, {process}, 0)
  /\ passes' = 0 /\ i' = 0 /\ selected' = "none" /\ k' = 0
  /\ response' = <<>> /\ confirmed' = "none"
  /\ destructive' = {} /\ queried' = {}
  /\ reports' = <<>> /\ diag' = ""
  /\ parsed' = 0 /\ shown' = 0
  /\ flagAtEntry' = FALSE /\ intrRun' = FALSE /\ cancelReq' = None
  /\ cleanup' = FALSE /\ deleted' = FALSE
  /\ vdisk' = FALSE
  /\ started' = 0 /\ okPasses' = 0
  /\ lastBytes' = NoMatch /\ lastPct' = NoPct
  /\ mapperOpen' = FALSE /\ loopAttached' = FALSE
  /\ UNCHANGED << cancelled, process, total_size, imageExists, imgChild, opened >>
  /\ UNCHANGED auxVars

\* The prompts before the confirmation end the operation: missing file, 'q' at
\* select_disk, invalid selection, a failing size query, no free space.
PromptAbort ==
  /\ pc = "prompt"
  /\ pc' = "menu"
  /\ queried' = QueriesOf(op)
  /\ UNCHANGED << progVars, countVars, vdisk,
                  op, cancelled, process, cur, childVars, total_size, passes, i,
                  selected, k, imageExists, imgChild, opened, response, confirmed,
                  destructive, reports, diag, parsed, shown, histVars >>
  /\ UNCHANGED << devVars, auxVars >>

\* The prompts before the confirmation succeed and leave validated parameters.
PromptDone(sz, n, fs) ==
  /\ pc = "prompt"
  /\ pc' = "confirm"
  /\ queried' = QueriesOf(op)
  /\ total_size' = IF op \in ExecOps THEN sz ELSE total_size
  /\ passes' = IF op = "secure_erase" THEN n ELSE 0
  /\ selected' = IF op \in FormatOps THEN fs ELSE "none"
  \* create_disk_image: self.image_path = os.path.join(save_path, filename)
  /\ imageExists' = IF op = "create_disk_image" THEN FALSE ELSE imageExists
  /\ imgChild' = IF op = "create_disk_image" THEN None ELSE imgChild
  /\ opened' = IF op = "create_disk_image" THEN FALSE ELSE opened
  /\ UNCHANGED << progVars, countVars, vdisk,
                  op, cancelled, process, cur, childVars, i, k, response,
                  confirmed, destructive, reports, diag, parsed, shown, histVars >>
  /\ UNCHANGED << devVars, auxVars >>

\* confirm_operation and the caller's "if not self.confirm_operation(...): return".
Confirm(answer) ==
  /\ pc = "confirm"
  /\ response' = answer
  /\ confirmed' = IF confirm_operation(answer) THEN "True" ELSE "False"
  /\ pc' = IF ~confirm_operation(answer) THEN "menu"
           ELSE IF op \in ExecOps THEN "popen"
           ELSE IF op \in {"secure_erase", "create_disk_image"} THEN "size"
           ELSE "tools"
  /\ selected' = IF confirm_operation(answer) THEN selected ELSE "none"
  /\ flagAtEntry' = (confirm_operation(answer) /\ op \in ExecOps /\ cancelled)
  /\ UNCHANGED << progVars, countVars, vdisk,
                  op, cancelled, process, cur, childVars, total_size, passes, i,
                  k, imageExists, imgChild, opened, destructive, queried,
                  reports, diag, parsed, shown, intrRun, cancelReq, cleanup,
                  deleted >>
  /\ UNCHANGED << devVars, auxVars >>

\* secure_erase / create_disk_image: blockdev --getsize64 after the confirmation.
GetSize(ok, sz) ==
  /\ pc = "size"
  /\ IF ok
       THEN /\ total_size' = sz
            /\ pc' = IF op = "secure_erase" THEN "passtop" ELSE "popen"
            /\ flagAtEntry' = cancelled
            /\ UNCHANGED << reports, diag >>
       ELSE \* print("Error: Failed to get disk size: {e}"); return
            /\ reports' = Append(reports, "failed")
            /\ diag' = StrOfError
            /\ pc' = "menu"
            /\ UNCHANGED << total_size, flagAtEntry >>
  /\ UNCHANGED << progVars, countVars, vdisk,
                  op, cancelled, process, cur, childVars, passes, i, selected, k,
                  imageExists, imgChild, opened, response, confirmed, destructive,
                  queried, parsed, shown, intrRun, cancelReq, cleanup, deleted >>
  /\ UNCHANGED << devVars, auxVars >>

\* A pass loop without the "if self.cancelled: break" at its head.
StartsPass_ignores_cancel(idx, n, isCancelled) == idx < n

\* secure_erase: "for i in range(passes)" yields pass idx and
\* "if self.cancelled: break" lets it start.
StartsPass(idx, n, isCancelled) == idx < n /\ ~isCancelled

\* secure_erase: head of "for i in range(passes)", its "if self.cancelled: break",
\* and the report after the loop.
PassTop ==
  /\ pc = "passtop"
  /\ IF StartsPass(i, passes, cancelled)
       THEN /\ pc' = "popen"
            /\ UNCHANGED reports
       ELSE /\ reports' = Append(reports, EraseReport(cancelled))
            /\ pc' = "ret"
  /\ UNCHANGED << progVars, countVars, vdisk,
                  op, cancelled, process, cur, childVars, total_size, passes, i,
                  selected, k, imageExists, imgChild, opened, response, confirmed,
                  destructive, queried, diag, parsed, shown, histVars >>
  /\ UNCHANGED << devVars, auxVars >>

\* A read loop that never looks at the flag.
BreakOnCancel_never == FALSE

\* "if self.cancelled:" at the head of the read loops.
BreakOnCancel == cancelled

\* Handle given to the next child: the lowest one that is free, or reaped and
\* referenced by nothing once self.process is reassigned.
NewHandle == CHOOSE c \in Children :
  /\ cstate[c] \in {"free", "reaped"}
  /\ \A d \in Children : cstate[d] \in {"free", "reaped"} => c <= d

\* subprocess.Popen(["sudo", "dd", ...]) and "self.process = process".
PopenOk ==
  /\ pc = "popen"
  /\ \E c \in Children : cstate[c] \in {"free", "reaped"}
  /\ LET c == NewHandle
         st == [cstate EXCEPT ![c] = "running"]
     IN /\ cstate' = Collect(st, {c})
        /\ cterm' = Forget([cterm EXCEPT ![c] = FALSE], st, {c}, FALSE)
        /\ crc' = Forget([crc EXCEPT ![c] = 0], st, {c}, 0)
        /\ process' = c
        /\ cur' = c
        /\ imgChild' = IF op = "create_disk_image" THEN c
                       ELSE IF imgChild = c THEN None ELSE imgChild
        /\ opened' = IF op = "create_disk_image" THEN FALSE ELSE opened
  /\ destructive' = destructive \cup {"dd"}
  /\ started' = started + 1
  /\ lastBytes' = NoMatch /\ lastPct' = NoPct
  /\ pc' = "loop"
  /\ UNCHANGED << okPasses, vdisk,
                  op, cancelled, total_size, passes, i, selected, k, imageExists,
                  response, confirmed, queried, reports, diag, parsed, shown,
                  histVars >>
  /\ UNCHANGED << devVars, auxVars >>

\* A start failure that is swallowed: nothing is reported.
PopenFails_swallowed ==
  /\ pc = "popen"
  /\ process' = IF op \in ExecOps THEN None ELSE process
  /\ reports' = reports
  /\ diag' = "Error: OSError"
  /\ pc' = "menu"
  /\ UNCHANGED << progVars, countVars, vdisk,
                  op, cancelled, cur, childVars, total_size, passes, i, selected,
                  k, imageExists, imgChild, opened, response, confirmed,
                  destructive, queried, parsed, shown, histVars >>
  /\ UNCHANGED << devVars, auxVars >>

\* Popen raises OSError (sudo missing, fork failure): not a CalledProcessError,
\* so it reaches main's "except Exception" (execute_dd's finally runs first).
PopenFails ==
  /\ pc = "popen"
  /\ process' = IF op \in ExecOps THEN None ELSE process
  /\ reports' = Append(reports, "error")
  /\ diag' = "Error: OSError"
  /\ pc' = "menu"
  /\ UNCHANGED << progVars, countVars, vdisk,
                  op, cancelled, cur, childVars, total_size, passes, i, selected,
                  k, imageExists, imgChild, opened, response, confirmed,
                  destructive, queried, parsed, shown, histVars >>
  /\ UNCHANGED << devVars, auxVars >>

\* Head of the read loop with self.cancelled set: execute_dd only breaks;
\* secure_erase terminates the child; create_disk_image terminates it and
\* removes the partial image.
LoopCancelled ==
  /\ pc = "loop"
  /\ BreakOnCancel
  /\ cterm' = IF op \in ExecOps THEN cterm ELSE Terminate(cterm, cur)
  /\ IF op = "create_disk_image"
       THEN /\ imageExists' = FALSE
            /\ deleted' = (deleted \/ imageExists)
            /\ cleanup' = TRUE
       ELSE UNCHANGED << imageExists, deleted, cleanup >>
  /\ pc' = "wait"
  /\ UNCHANGED << progVars, countVars, vdisk,
                  op, cancelled, process, cur, cstate, crc, total_size, passes, i,
                  selected, k, imgChild, opened, response, confirmed, destructive,
                  queried, reports, diag, parsed, shown, flagAtEntry, intrRun,
                  cancelReq >>
  /\ UNCHANGED << devVars, auxVars >>

\* readline() returns a status line of the running child; the line is parsed
\* and, when it matches, the percentage is computed and printed.
\* update_progress guards the division by "if self.total_size > 0"; the inline
\* code of secure_erase and create_disk_image divides unguarded.
ReadLine(line) ==
  /\ pc = "loop"
  /\ ~BreakOnCancel
  /\ cstate[cur] = "running"
  /\ cur = imgChild => opened
  /\ line # NoMatch => parsed < MaxSamples
  /\ parsed' = IF line = NoMatch THEN parsed ELSE parsed + 1
  /\ IF line # NoMatch /\ total_size = 0 /\ op \notin ExecOps
       THEN \* ZeroDivisionError reaches main's "except Exception"
            /\ reports' = Append(reports, "error")
            /\ diag' = "Error: division by zero"
            /\ pc' = "menu"
            /\ UNCHANGED << shown, progVars >>
       ELSE /\ shown' = IF line # NoMatch /\ total_size > 0 THEN shown + 1 ELSE shown
            /\ IF line # NoMatch /\ total_size > 0
                 THEN /\ lastBytes' = line
                      /\ lastPct' = IF op = "secure_erase"
                                      THEN progress(i, line, total_size, passes)
                                      ELSE progress_percentage(line, total_size)
                 ELSE UNCHANGED progVars
            /\ pc' = "loop"
            /\ UNCHANGED << reports, diag >>
  /\ UNCHANGED << countVars, vdisk,
                  op, cancelled, process, cur, childVars, total_size, passes, i,
                  selected, k, imageExists, imgChild, opened, response, confirmed,
                  destructive, queried, histVars >>
  /\ UNCHANGED << devVars, auxVars >>

\* readline() returns '' (the child closed its status stream): "if not line: break".
ReadEOF ==
  /\ pc = "loop"
  /\ ~BreakOnCancel
  /\ cstate[cur] # "running"
  /\ pc' = "wait"
  /\ UNCHANGED << progVars, countVars, vdisk,
                  op, cancelled, process, cur, childVars, total_size, passes, i,
                  selected, k, imageExists, imgChild, opened, response, confirmed,
                  destructive, queried, reports, diag, parsed, shown, histVars >>
  /\ UNCHANGED << devVars, auxVars >>

\* process.wait(): blocks until the child has exited, then reaps it.
Wait ==
  /\ pc = "wait"
  /\ cstate[cur] = "zombie"
  /\ cstate' = [cstate EXCEPT ![cur] = "reaped"]
  /\ imgChild' = IF imgChild = cur THEN None ELSE imgChild
  /\ opened' = IF imgChild = cur THEN FALSE ELSE opened
  /\ okPasses' = IF crc[cur] = 0 THEN okPasses + 1 ELSE okPasses
  /\ pc' = "classify"
  /\ UNCHANGED << progVars, started, vdisk,
                  op, cancelled, process, cur, cterm, crc, total_size, passes, i,
                  selected, k, imageExists, response, confirmed,
                  destructive, queried, reports, diag, parsed, shown, histVars >>
  /\ UNCHANGED << devVars, auxVars >>

\* A pass loop that goes on to the next pass whatever the exit status.
PassFailed_never(rc, isCancelled) == FALSE

\* secure_erase: "if process.returncode != 0 and not self.cancelled: raise".
PassFailed(rc, isCancelled) == rc # 0 /\ ~isCancelled

\* The code after wait(): execute_dd and create_disk_image classify the run and
\* print the outcome (a non-zero exit raises CalledProcessError, whose handler
\* prints the failure and, in create_disk_image, removes the image);
\* secure_erase raises on a non-zero exit unless cancelled, else goes on to the
\* next pass.
AfterWait ==
  /\ pc = "classify"
  /\ IF op = "secure_erase"
       THEN IF PassFailed(crc[cur], cancelled)
              THEN /\ reports' = Append(reports, "failed")
                   /\ diag' = error_msg(RaisedStderr)
                   /\ pc' = "ret"
                   /\ UNCHANGED i
              ELSE /\ i' = i + 1
                   /\ pc' = "passtop"
                   /\ UNCHANGED << reports, diag >>
       ELSE /\ reports' = Append(reports, Classify(cancelled, crc[cur]))
            /\ diag' = IF Classify(cancelled, crc[cur]) = "failed"
                         THEN error_msg(RaisedStderr) ELSE diag
            /\ pc' = "ret"
            /\ UNCHANGED i
  /\ IF op = "create_disk_image" /\ Classify(cancelled, crc[cur]) = "failed"
       THEN /\ imageExists' = FALSE
            /\ deleted' = (deleted \/ imageExists)
            /\ cleanup' = TRUE
       ELSE UNCHANGED << imageExists, deleted, cleanup >>
  /\ UNCHANGED << progVars, countVars, vdisk,
                  op, cancelled, process, cur, childVars, total_size, passes,
                  selected, k, imgChild, opened, response, confirmed, destructive,
                  queried, parsed, shown, flagAtEntry, intrRun, cancelReq >>
  /\ UNCHANGED << devVars, auxVars >>

\* The operation returns to main's loop; execute_dd's "finally" clears self.process.
Return ==
  /\ pc = "ret"
  /\ pc' = "menu"
  /\ process' = IF op \in ExecOps THEN None ELSE process
  /\ UNCHANGED << progVars, countVars, vdisk,
                  op, cancelled, cur, childVars, total_size, passes, i, selected,
                  k, imageExists, imgChild, opened, response, confirmed,
                  destructive, queried, reports, diag, parsed, shown, histVars >>
  /\ UNCHANGED << devVars, auxVars >>

\* One step of a tool operation: an external command (subprocess.run(...,
\* check=True), check_output, or Popen + communicate + returncode test) or a
\* prompt inside the try block (the filesystem prompt of dd.py's
\* create_virtual_disk, the passphrase and inner-filesystem prompts of
\* format_disk with LUKS), whose invalid answer returns from inside the try.
\* create_virtual_disk: dd creates the
\* image file; the CalledProcessError handler removes it.
ToolStep(ok) ==
  /\ pc = "tools"
  /\ LET tools == ToolsOf(op, selected)
         tool == tools[k + 1]
     IN /\ destructive' = destructive \cup ({tool} \cap DestructiveTools)
        /\ mapperOpen' = MapperAfter(op, tool, ok, mapperOpen)
        /\ loopAttached' = LoopAfter(tool, ok, loopAttached)
        /\ IF ~ok
             THEN /\ reports' = Append(reports, IF tool \in ToolPrompts
                                                  THEN "invalid" ELSE "failed")
                  /\ diag' = IF tool \in ToolPrompts
                               THEN PromptDiag(op, tool) ELSE error_msg(RaisedStderr)
                  /\ vdisk' = IF tool \in ToolPrompts THEN vdisk ELSE FALSE
                  /\ pc' = "menu"
                  /\ k' = 0
                  /\ selected' = "none"
           ELSE IF k + 1 = Len(tools)
             THEN /\ reports' = Append(reports, "succeeded")
                  /\ pc' = "menu"
                  /\ k' = 0
                  /\ selected' = "none"
                  /\ UNCHANGED << diag, vdisk >>
           ELSE /\ k' = k + 1
                /\ vdisk' = (vdisk \/ (op \in VDiskOps /\ tool = "dd"))
                /\ UNCHANGED << pc, selected, reports, diag >>
  /\ UNCHANGED << op, cancelled, process, cur, childVars, total_size, passes, i,
                  imageExists, imgChild, opened, response, confirmed, queried,
                  parsed, shown, histVars, countVars, progVars >>
  /\ UNCHANGED auxVars

\* Operator interrupt while an operation executes: KeyboardInterrupt unwinds
\* the operation (only execute_dd has a "finally", which clears self.process),
\* main prints "Operation cancelled by user" and calls cancel_operation:
\* "if self.process: self.process.terminate()", then self.cancelled = True.
InterruptedProcess ==
  IF op \in ExecOps /\ pc \in {"popen", "loop", "wait", "classify", "ret"}
    THEN None ELSE process

KeyboardInterrupt ==
  /\ pc # "menu"
  /\ process' = InterruptedProcess
  /\ reports' = Append(reports, "cancelled_by_user")
  /\ cterm' = Terminate(cterm, InterruptedProcess)
  /\ cancelled' = TRUE
  /\ pc' = "menu"
  /\ intrRun' = (cur # None /\ cstate[cur] = "running"
                 /\ pc \in {"loop", "wait", "classify", "ret", "passtop"})
  /\ cancelReq' = IF cur # None /\ cstate[cur] = "running" THEN cur ELSE None
  /\ k' = 0
  /\ selected' = "none"
  /\ UNCHANGED << progVars, countVars, vdisk,
                  op, cur, cstate, crc, total_size, passes, i,
                  imageExists, imgChild, opened, response, confirmed, destructive,
                  queried, diag, parsed, shown, flagAtEntry, cleanup, deleted >>
  /\ UNCHANGED << devVars, auxVars >>

\* ------------------------------------------------------------ dd children
\* The dd child of create_disk_image opens its output: the image file appears.
ChildOpen(c) ==
  /\ c = imgChild
  /\ cstate[c] = "running"
  /\ ~opened
  /\ opened' = TRUE
  /\ imageExists' = TRUE
  /\ UNCHANGED << progVars, countVars, vdisk,
                  pc, op, cancelled, process, cur, childVars, total_size, passes,
                  i, selected, k, imgChild, response, confirmed, destructive,
                  queried, reports, diag, parsed, shown, histVars >>
  /\ UNCHANGED << devVars, auxVars >>

\* A child exits: with status 0 or 1 of its own accord, or killed by the
\* SIGTERM it was sent.  Nothing obliges a child to exit.
ChildExit(c, rc) ==
  /\ cstate[c] = "running"
  /\ rc = SIGTERM_RC => cterm[c]
  /\ (c = imgChild /\ rc = 0) => opened
  /\ cstate' = [cstate EXCEPT ![c] = "zombie"]
  /\ crc' = [crc EXCEPT ![c] = rc]
  /\ UNCHANGED << progVars, countVars, vdisk,
                  pc, op, cancelled, process, cur, cterm, total_size, passes, i,
                  selected, k, imageExists, imgChild, opened, response, confirmed,
                  destructive, queried, reports, diag, parsed, shown, histVars >>
  /\ UNCHANGED << devVars, auxVars >>

MainStep ==
  \/ \E o \in Catalog : SelectOp(o)
  \/ PromptAbort
  \/ \E sz \in TotalSizes, n \in PassChoices, fs \in {"ext4", "luks"} :
       PromptDone(sz, n, fs)
  \/ \E answer \in Answers : Confirm(answer)
  \/ \E ok \in BOOLEAN, sz \in TotalSizes : GetSize(ok, sz)
  \/ PassTop
  \/ PopenOk
  \/ PopenFails
  \/ LoopCancelled
  \/ \E line \in ByteCounts \cup {NoMatch} : ReadLine(line)
  \/ ReadEOF
  \/ Wait
  \/ AfterWait
  \/ Return
  \/ \E ok \in BOOLEAN : ToolStep(ok)

ChildStep ==
  \/ \E c \in Children : ChildOpen(c)
  \/ \E c \in Children, rc \in {0, 1, SIGTERM_RC} : ChildExit(c, rc)

Next == MainStep \/ KeyboardInterrupt \/ ChildStep

Spec == Init /\ [][Next]_vars

\* The main thread keeps running whenever it is not blocked in readline() or
\* wait(); nothing is assumed of the children or of the operator.
FairSpec == Spec /\ WF_vars(MainStep)

\* What a dd child that exits with rc has written on its error stream besides
\* its status lines: dd prints a message before it exits with status 1, none
\* when it exits with 0 or is killed by SIGTERM.
ErrorStreamOf(rc) ==
  IF rc = 1 THEN "dd: error writing: No space left on device" ELSE ""

\* ------------------------------------------- loop devices and LUKS mappings
\* Sessions of create_virtual_disk and format_disk, of DD-CLI.py and of dd.py:
\* the same menu loop, prompts, confirmation, command steps and operator
\* interrupt, with no supervised dd run.
DeviceNext ==
  \/ \E o \in DeviceOps : SelectOp(o)
  \/ PromptAbort
  \/ \E sz \in TotalSizes, n \in PassChoices, fs \in {"ext4", "luks"} :
       PromptDone(sz, n, fs)
  \/ \E answer \in Answers : Confirm(answer)
  \/ \E ok \in BOOLEAN : ToolStep(ok)
  \/ KeyboardInterrupt

DeviceSpec == Init /\ [][DeviceNext]_vars

\* --------------------------------------------------------- progress parser
\* Fragments a status line is built from, at most.
MaxFrags == 4

\* Characters matched by \d in the lines studied.
Digits == {"0", "1", "2"}

\* The literal ' bytes' of the pattern r'(\d+) bytes'.
BytesLiteral == <<" ", "b", "y", "t", "e", "s">>

\* Pieces of the status lines a child can write.
Fragments == { <<"0">>, <<"1">>, <<"2">>, <<" ">>, <<"x">>, BytesLiteral,
               <<"b", "y", "t", "e", "s">>, <<" ", "b", "y", "t", "e">> }

RECURSIVE Concat(_)
Concat(fs) == IF fs = <<>> THEN <<>> ELSE Head(fs) \o Concat(Tail(fs))

\* Lines returned by readline(), as character sequences.
Lines == { Concat(fs) : fs \in UNION { [1 .. n -> Fragments] : n \in 0 .. MaxFrags } }

IsDigit(ch) == ch \in Digits

DigitValue(ch) == CASE ch = "0" -> 0 [] ch = "1" -> 1 [] ch = "2" -> 2

\* int(match.group(1))
RECURSIVE IntOf(_)
IntOf(ds) ==
  IF ds = <<>> THEN 0
  ELSE IntOf(SubSeq(ds, 1, Len(ds) - 1)) * 10 + DigitValue(ds[Len(ds)])

\* Number of consecutive \d characters of s from position p on.
RECURSIVE DigitRun(_, _)
DigitRun(s, p) ==
  IF p <= Len(s) /\ IsDigit(s[p]) THEN 1 + DigitRun(s, p + 1) ELSE 0

\* ' bytes' stands at position q of s.
LiteralAt(s, q) ==
  /\ q + Len(BytesLiteral) - 1 <= Len(s)
  /\ SubSeq(s, q, q + Len(BytesLiteral) - 1) = BytesLiteral

\* Length of group 1 when the pattern matches at position p (0: no match):
\* \d+ is greedy and gives digits back until ' bytes' follows.
MatchLen(s, p) ==
  LET fits == {n \in 1 .. DigitRun(s, p) : LiteralAt(s, p + n)}
  IN IF fits = {} THEN 0 ELSE CHOOSE n \in fits : \A m \in fits : m <= n

\* A search for r'(\d+)' alone: the first digits of the line, whatever follows.
re_search_any_digits(s) ==
  LET starts == {p \in 1 .. Len(s) : IsDigit(s[p])}
  IN IF starts = {} THEN <<>>
     ELSE LET p == CHOOSE q \in starts : \A r \in starts : q <= r
          IN SubSeq(s, p, p + DigitRun(s, p) - 1)

\* re.search(r'(\d+) bytes', line): group 1 of the match at the leftmost
\* position where the pattern matches (<<>>: re.search returned None).
re_search(s) ==
  LET starts == {p \in 1 .. Len(s) : MatchLen(s, p) > 0}
  IN IF starts = {} THEN <<>>
     ELSE LET p == CHOOSE q \in starts : \A r \in starts : q <= r
          IN SubSeq(s, p, p + MatchLen(s, p) - 1)

\* "if match: copied_bytes = int(match.group(1))"
copied_bytes_of(s) == IF re_search(s) = <<>> THEN NoMatch ELSE IntOf(re_search(s))

\* readline() has returned some line.
ParserInit ==
  /\ MainInit
  /\ step = "line"
  /\ lineText \in Lines
  /\ sample = NoMatch
  /\ disk_details = <<>>
  /\ choice = 0
  /\ verdict = "none"
  /\ src_disk = <<>>
  /\ dest_disk = <<>>

\* update_progress(line) up to "copied_bytes = ..."; the same two lines stand
\* inline in secure_erase and create_disk_image.
update_progress ==
  /\ step = "line"
  /\ step' = "parsed"
  /\ sample' = copied_bytes_of(lineText)
  /\ UNCHANGED << lineText, mainVars, diskVars >>

ParserNext == update_progress

ParserSpec == ParserInit /\ [][ParserNext]_vars

\* ----------------------------------------------------------- disk selection
\* Lines of one lsblk listing, at most.
MaxDisks == 3
\* Largest number entered at a select_disk prompt.
MaxEntry == 3

\* select_disk returned None / no device selected yet.
NoDisk == <<>>

\* Device paths lsblk -dp can print, as the prefix tested by get_disk_info
\* (or another one) and the rest of the name.
DevicePaths == { <<"/dev/", "sd", "a">>, <<"/dev/", "sd", "b">>,
                 <<"/dev/", "mmcblk", "0">>, <<"/dev/", "loop", "0">>,
                 <<"/dev/", "nvme", "0n1">> }

\* One line of lsblk -dpno NAME,SIZE,TYPE,MODEL.
LsblkLine(path) == path \o <<" ", "8G", " ", "disk">>

\* Outputs of lsblk: every device at most once.
Listings ==
  { ds \in UNION { [1 .. n -> DevicePaths] : n \in 0 .. MaxDisks } :
      \A a, b \in 1 .. Len(ds) : ds[a] = ds[b] => a = b }

\* str.startswith
StartsWith(s, prefix) ==
  Len(prefix) <= Len(s) /\ SubSeq(s, 1, Len(prefix)) = prefix

\* line.startswith('/dev/sd') or ...('/dev/mmcblk') or ...('/dev/loop')
IsListedDisk(ln) ==
  \/ StartsWith(ln, <<"/dev/", "sd">>)
  \/ StartsWith(ln, <<"/dev/", "mmcblk">>)
  \/ StartsWith(ln, <<"/dev/", "loop">>)

\* line.split()[0]
RECURSIVE FirstField(_)
FirstField(ln) ==
  IF ln = <<>> \/ Head(ln) = " " THEN <<>> ELSE <<Head(ln)>> \o FirstField(Tail(ln))

\* get_disk_info: disk_choices, the (i, disk_path) of the lines kept, i being
\* the index enumerate() gives the line in the whole listing (from 0).
RECURSIVE DiskChoicesFrom(_, _)
DiskChoicesFrom(details, j) ==
  IF j > Len(details) THEN <<>>
  ELSE (IF IsListedDisk(LsblkLine(details[j]))
          THEN << <<j - 1, FirstField(LsblkLine(details[j]))>> >> ELSE <<>>)
       \o DiskChoicesFrom(details, j + 1)

get_disk_info(details) == DiskChoicesFrom(details, 1)

\* list_disks: "for i, path, size, model in disks: print(i, path, ...)": the
\* (number, device) pairs on the screen.
list_disks(details) ==
  { get_disk_info(details)[j] : j \in 1 .. Len(get_disk_info(details)) }

\* select_disk: "if 0 <= choice < len(disks)"
ValidChoice(n, disks) == 0 <= n /\ n < Len(disks)

\* select_disk: "return disks[choice][1]"
ChosenDisk(n, disks) == disks[n + 1][2]

\* disk_to_disk is entered; lsblk prints some listing.
DiskInit ==
  /\ MainInit
  /\ step = "select_source"
  /\ disk_details \in Listings
  /\ choice = 0
  /\ verdict = "none"
  /\ src_disk = NoDisk
  /\ dest_disk = NoDisk
  /\ lineText = <<>>
  /\ sample = NoMatch

\* select_disk: "if not disks: return None", and the caller's return.
select_disk_none ==
  /\ step \in {"select_source", "select_destination"}
  /\ get_disk_info(disk_details) = <<>>
  /\ step' = "menu"
  /\ verdict' = "no_disks"
  /\ UNCHANGED << disk_details, choice, src_disk, dest_disk, parseVars, mainVars >>

\* select_disk: 'q' at the prompt.
select_disk_quit ==
  /\ step \in {"select_source", "select_destination"}
  /\ get_disk_info(disk_details) # <<>>
  /\ step' = "menu"
  /\ verdict' = "quit"
  /\ UNCHANGED << disk_details, choice, src_disk, dest_disk, parseVars, mainVars >>

\* select_disk: a number n at the prompt, after list_disks printed the menu.
select_disk(n) ==
  /\ step \in {"select_source", "select_destination"}
  /\ LET disks == get_disk_info(disk_details)
     IN /\ disks # <<>>
        /\ choice' = n
        /\ IF ValidChoice(n, disks)
             THEN /\ verdict' = "accepted"
                  /\ IF step = "select_source"
                       THEN /\ src_disk' = ChosenDisk(n, disks)
                            /\ step' = "source_size"
                            /\ UNCHANGED dest_disk
                       ELSE /\ dest_disk' = ChosenDisk(n, disks)
                            /\ step' = "confirm"
                            /\ UNCHANGED src_disk
             ELSE \* "Invalid selection. Please try again."
                  /\ verdict' = "invalid"
                  /\ UNCHANGED << step, src_disk, dest_disk >>
  /\ UNCHANGED << disk_details, parseVars, mainVars >>

\* disk_to_disk: blockdev --getsize64 src_disk; a failure returns to the menu.
source_size(ok) ==
  /\ step = "source_size"
  /\ step' = IF ok THEN "select_destination" ELSE "menu"
  /\ UNCHANGED << diskVars, parseVars, mainVars >>

\* disk_to_disk: confirm_operation, then execute_dd(src_disk, dest_disk).
confirm_clone(answer) ==
  /\ step = "confirm"
  /\ step' = IF confirm_operation(answer) THEN "execute_dd" ELSE "menu"
  /\ UNCHANGED << diskVars, parseVars, mainVars >>

DiskNext ==
  \/ select_disk_none
  \/ select_disk_quit
  \/ \E n \in (0 - 1) .. MaxEntry : select_disk(n)
  \/ \E ok \in BOOLEAN : source_size(ok)
  \/ \E answer \in Answers : confirm_clone(answer)

DiskSpec == DiskInit /\ [][DiskNext]_vars

\* ------------------------------------------------------------------ claims
\* The classification of the invocation: the first one printed.
Outcome == IF reports = <<>> THEN "none" ELSE reports[1]

CancelledTags == {"cancelled", "cancelled_by_user"}
FailedTags == {"failed", "error"}

\* 'y' once trimmed and lower-cased, stated on the characters of the answer.
TrimmedYes(s) ==
  \E j \in 1 .. Len(s) :
    /\ s[j] \in {"y", "Y"}
    /\ \A m \in 1 .. Len(s) : m # j => s[m] = " "

\* C1: in every catalog operation a destructive external program is started
\* only after confirm_operation returned True in the same invocation, on an
\* answer that is 'y' once trimmed and lower-cased; after any other answer
\* the invocation has ended and started no destructive program.
C1_ConfirmationGate ==
  /\ destructive # {} => (confirmed = "True" /\ TrimmedYes(response))
  /\ confirmed = "True" => TrimmedYes(response)
  /\ confirmed = "False" => (pc = "menu" /\ destructive = {} /\ cur = None)

C1_Witness ==
  /\ pc = "menu"
  /\ op = "secure_erase"
  /\ confirmed = "False"
  /\ response = <<"y", "e", "s">>
  /\ queried # {}

C3_InterruptedImageRemoved ==
  (pc = "menu" /\ op = "create_disk_image" /\ intrRun)
    => (Outcome \in CancelledTags /\ ~imageExists)

\* C4: when the dd child has exited with a non-zero code and no cancellation
\* has occurred, the operation has ended as a failure with non-empty
\* diagnostic text, and create_disk_image has left no file at image_path.
C4_NonZeroExitFails ==
  ( /\ pc = "menu"
    /\ op \in SupervisedOps
    /\ cur # None
    /\ cstate[cur] \in {"zombie", "reaped"}
    /\ crc[cur] # 0
    /\ ~cancelled )
    => ( /\ Outcome \in FailedTags
         /\ diag # ""
         /\ op = "create_disk_image" => ~imageExists )

\* C5: once a supervised run has ended, on whatever path, its child has been
\* waited for.
C5_ChildReapedAtEnd ==
  (pc = "menu" /\ cur # None) => cstate[cur] = "reaped"

\* C6: at most one dd child started by the tool is running at any moment.
C6_AtMostOneChildRunning == Cardinality(Running) <= 1

\* C7: a child that was running when cancellation was requested has been sent
\* a terminate request.
C7_CancelTerminatesChild == cancelReq # None => cterm[cancelReq]

\* C8: a supervisor that has observed the cancellation and sent the terminate
\* request gets past its wait on the child, whatever the child does.
C8_SupervisorReturns ==
  (pc = "wait" /\ cancelled /\ cterm[cur]) ~> (pc \in {"classify", "menu"})

\* C9 (as stated): a run of execute_dd or create_disk_image entered with the
\* cancelled flag set ends Cancelled and parses and displays no sample.
C9_FlagAtEntryCancels ==
  (pc = "menu" /\ op \in ExecOps \cup {"create_disk_image"} /\ flagAtEntry)
    => (Outcome \in CancelledTags /\ parsed = 0 /\ shown = 0)

\* C9 (amended): a run of execute_dd or create_disk_image entered with the
\* cancelled flag set whose dd child was started parses and displays no
\* sample and ends Cancelled.
C9_FlagAtEntryCancelsStartedRun ==
  (op \in ExecOps \cup {"create_disk_image"} /\ flagAtEntry /\ cur # None)
    => ( /\ parsed = 0
         /\ shown = 0
         /\ pc = "ret" => Outcome = "cancelled"
         /\ pc = "menu" => Outcome \in CancelledTags )

C9_Witness ==
  /\ pc = "menu"
  /\ op = "create_disk_image"
  /\ flagAtEntry
  /\ cur # None
  /\ cstate[cur] = "reaped"
  /\ reports = <<"cancelled">>

\* C10: a supervised operation removes the file at image_path only if it is
\* create_disk_image ending Cancelled or Failed, and whenever create_disk_image
\* ends Cancelled or Failed no file is left at image_path.
C10_DeletedIffNotSucceeded ==
  (pc = "menu" /\ op \in SupervisedOps)
    => ( /\ deleted => (op = "create_disk_image"
                        /\ Outcome \in CancelledTags \cup FailedTags)
         /\ (op = "create_disk_image" /\ Outcome \in CancelledTags \cup FailedTags)
              => ~imageExists )

\* C11: every return of create_virtual_disk that is not a success leaves no
\* file at image_path (dd, losetup or mkfs failure, invalid filesystem
\* selection).
C11_VirtualDiskRemovedUnlessSucceeded ==
  ( /\ pc = "menu"
    /\ op \in VDiskOps
    /\ confirmed = "True"
    /\ Outcome \notin {"succeeded", "cancelled_by_user"} ) => ~vdisk

\* C12: secure_erase starts its passes in index order, each only once the
\* child of the pass before it has been waited for and only with the
\* cancelled flag clear; entered with the flag set it starts no child at all
\* and the wipe ends reported as cancelled.
C12_PassesInOrderUnlessCancelled ==
  op = "secure_erase" =>
    /\ pc \in {"passtop", "popen"} => started = i
    /\ pc \in {"loop", "wait", "classify"} => started = i + 1
    /\ pc = "popen" =>
         (~cancelled /\ i < passes /\ (cur # None => cstate[cur] = "reaped"))
    /\ (flagAtEntry /\ pc \in {"passtop", "popen", "loop", "wait", "classify"})
         => started = 0
    /\ (flagAtEntry /\ pc \in {"ret", "menu"})
         => (started = 0 /\ "dd" \notin destructive /\ Outcome \in CancelledTags)

C12_Witness ==
  /\ op = "secure_erase"
  /\ pc = "menu"
  /\ flagAtEntry
  /\ passes = 3
  /\ reports = <<"cancelled">>

\* C13: in secure_erase no pass is started unless every pass before it was
\* waited for with exit status 0, no pass index is started twice, and when the
\* last pass started did not succeed the wipe reports that pass's outcome:
\* Failed if its child exited non-zero and the pass was classified,
\* Cancelled if the operator interrupted it.
C13_StopsAtFirstFailedPass ==
  op = "secure_erase" =>
    /\ started > 0 => okPasses >= started - 1
    /\ started <= passes
    /\ ( /\ pc \in {"ret", "menu"}
         /\ cur # None
         /\ cstate[cur] = "reaped"
         /\ crc[cur] # 0
         /\ Outcome # "cancelled_by_user" )
         => (Outcome = "failed" /\ okPasses = started - 1)
    /\ (pc = "menu" /\ intrRun) => Outcome = "cancelled_by_user"

C13_Witness ==
  /\ op = "secure_erase"
  /\ pc = "menu"
  /\ passes = 3
  /\ started = 2
  /\ okPasses = 1
  /\ reports = <<"failed">>

\* C14: secure_erase reports success only if exactly `passes` children were
\* started, each was waited for with exit status 0, and the cancelled flag
\* was clear when the report was printed.
C14_SuccessMeansAllPasses ==
  (op = "secure_erase" /\ Outcome = "succeeded")
    => ( /\ started = passes
         /\ okPasses = passes
         /\ passes \in PassChoices
         /\ ~flagAtEntry
         /\ cur # None /\ cstate[cur] = "reaped" /\ crc[cur] = 0 )

C14_Witness ==
  /\ op = "secure_erase"
  /\ pc = "menu"
  /\ passes = 3
  /\ started = 3
  /\ okPasses = 3
  /\ reports = <<"succeeded">>

\* The start of the dd child failed in this invocation.
StartFailed == diag = "Error: OSError"

\* C15 (as stated): a failure to start the child is classified as Failed by
\* the supervised operation itself, and no sample is delivered in that run.
C15_StartFailureClassifiedFailed ==
  (pc = "menu" /\ op \in ExecOps /\ StartFailed)
    => (Outcome = "failed" /\ shown = 0)

\* C15 (amended): a failure to start the child ends the operation at once,
\* reported once, as an error, by main's handler; execute_dd has then parsed
\* and displayed no sample, started no child and left self.process cleared.
C15_StartFailureReportedByMain ==
  StartFailed =>
    /\ pc = "menu"
    /\ reports = <<"error">>
    /\ op \in SupervisedOps
    /\ op \in ExecOps \cup {"create_disk_image"} =>
         (parsed = 0 /\ shown = 0 /\ started = 0 /\ cur = None)
    /\ op \in ExecOps => process = None

C15_Witness ==
  /\ pc = "menu"
  /\ op = "disk_to_disk"
  /\ confirmed = "True"
  /\ StartFailed
  /\ ~cancelled

\* C16: an invocation of a supervised operation that got past confirmation
\* has, once it has ended, reported exactly one classification.
C16_ExactlyOneClassification ==
  (pc = "menu" /\ op \in SupervisedOps /\ confirmed = "True")
    => Len(reports) = 1

\* The step is main's "except KeyboardInterrupt" calling cancel_operation.
CancelStep ==
  /\ pc # "menu"
  /\ pc' = "menu"
  /\ reports' = Append(reports, "cancelled_by_user")

\* C17: cancel_operation reached with no tracked handle, or with a handle
\* whose child has already exited (waited for or not), signals no process
\* and changes no child; it leaves the handle as it found it and sets
\* cancelled.
C17_CancelOnDeadHandleIsNoOp ==
  [][ ( /\ CancelStep
        /\ InterruptedProcess = None \/ cstate[InterruptedProcess] # "running" )
      => ( /\ cterm' = cterm
           /\ cstate' = cstate
           /\ crc' = crc
           /\ process' = InterruptedProcess
           /\ cancelled' = TRUE ) ]_vars

C17_Witness ==
  /\ pc = "menu"
  /\ op = "file_to_disk"
  /\ cur = None
  /\ reports = <<"cancelled_by_user">>
  /\ cancelled
  /\ process # None
  /\ cstate[process] = "reaped"
  /\ ~cterm[process]

MinOf(a, b) == IF a <= b THEN a ELSE b

\* C18: with total > 0 the percentage displayed by a single-pass operation
\* (update_progress under execute_dd, create_disk_image) is
\* min(100, 100 * copied / total), which lies in [0, 100]; stated without
\* division as pct * total = min(100 * copied, 100 * total).
C18_SinglePassPercentage ==
  (op \in ExecOps \cup {"create_disk_image"} /\ lastPct # NoPct)
    => ( /\ total_size > 0
         /\ lastPct.den > 0
         /\ lastPct.num * total_size
              = lastPct.den * MinOf(100 * lastBytes, 100 * total_size)
         /\ 0 <= lastPct.num
         /\ lastPct.num <= 100 * lastPct.den )

\* Half of the declared total reported, then exit 0: the display ends at 50
\* and the outcome is Succeeded.
C18_Witness ==
  /\ pc = "menu"
  /\ op = "file_to_disk"
  /\ total_size = 4
  /\ lastBytes = 2
  /\ lastPct = [num |-> 50, den |-> 1]
  /\ reports = <<"succeeded">>

\* C19: in secure_erase the percentage displayed while pass i runs is
\* (i * 100 + p) / passes with p = 100 * copied / total the percentage of the
\* pass itself (stated without division), and it is 100 when the last pass
\* reports the whole total.
C19_OverallPercentage ==
  ( /\ op = "secure_erase"
    /\ pc \in {"loop", "wait", "classify"}
    /\ lastPct # NoPct )
    => ( /\ passes >= 1
         /\ total_size > 0
         /\ lastPct.den > 0
         /\ lastPct.num * passes * total_size
              = lastPct.den * (i * 100 * total_size + 100 * lastBytes)
         /\ (i = passes - 1 /\ lastBytes = total_size)
              => lastPct = [num |-> 100, den |-> 1] )

C19_Witness ==
  /\ op = "secure_erase"
  /\ pc = "loop"
  /\ passes = 3
  /\ i = 2
  /\ lastBytes = total_size
  /\ lastPct = [num |-> 100, den |-> 1]

\* C20: every percentage delivered to the display, in every operation, lies
\* in [0, 100].
C20_PercentageWithinBounds ==
  lastPct # NoPct => (0 <= lastPct.num /\ lastPct.num <= 100 * lastPct.den)

\* Value of a decimal numeral, most significant digit first.
RECURSIVE Pow10(_)
Pow10(n) == IF n = 0 THEN 1 ELSE 10 * Pow10(n - 1)

RECURSIVE DecimalValue(_)
DecimalValue(ds) ==
  IF ds = <<>> THEN 0
  ELSE DigitValue(Head(ds)) * Pow10(Len(ds) - 1) + DecimalValue(Tail(ds))

\* s[p..q] is a maximal run of digits directly followed by ' bytes'.
RunBeforeBytes(s, p, q) ==
  /\ p <= q
  /\ \A j \in p .. q : IsDigit(s[j])
  /\ p > 1 => ~IsDigit(s[p - 1])
  /\ LiteralAt(s, q + 1)

\* C21: the progress parser yields N for a line that contains a decimal
\* integer N directly followed by ' bytes', N being the leftmost maximal run
\* of digits so followed, and yields no sample for every other line.
C21_ParserYieldsLeftmostRun ==
  step = "parsed" =>
    LET s == lineText
        runs == {pq \in (1 .. Len(s)) \X (1 .. Len(s)) : RunBeforeBytes(s, pq[1], pq[2])}
    IN IF runs = {} THEN sample = NoMatch
       ELSE \E pq \in runs :
              /\ \A other \in runs : pq[1] <= other[1]
              /\ sample = DecimalValue(SubSeq(s, pq[1], pq[2]))
              /\ sample >= 0

C21_Witness ==
  /\ step = "parsed"
  /\ lineText = <<"1", "x", "2">> \o BytesLiteral
  /\ sample = 2

\* C22: when a supervised run ends Failed because the child exited non-zero,
\* the diagnostic text reported is the content of the child's error stream;
\* the generic message is used only when that stream is empty.
C22_DiagnosticIsErrorStream ==
  ( /\ pc \in {"ret", "menu"}
    /\ op \in SupervisedOps
    /\ cur # None
    /\ cstate[cur] = "reaped"
    /\ crc[cur] # 0
    /\ Outcome = "failed" )
    => diag = (IF ErrorStreamOf(crc[cur]) # "" THEN ErrorStreamOf(crc[cur])
               ELSE StrOfError)

\* The device select_disk returned last.
Returned == IF dest_disk # NoDisk THEN dest_disk ELSE src_disk

\* Numbers list_disks printed.
DisplayedNumbers == { d[1] : d \in list_disks(disk_details) }

\* C23: the device select_disk returns for an entered number n is the device
\* list_disks displayed next to n, and a number that was not displayed is
\* rejected as invalid.
C23_ReturnsDisplayedDevice ==
  verdict \in {"accepted", "invalid"} =>
    IF choice \in DisplayedNumbers
      THEN verdict = "accepted" /\ <<choice, Returned>> \in list_disks(disk_details)
      ELSE verdict = "invalid"

\* C24: a supervised operation confirmed after an earlier cancellation in the
\* same session (the flag was set when it was entered), and not interrupted
\* itself, has started its child and is classified from the child's exit
\* status alone, as it would be with no earlier cancellation.
C24_LaterOperationUnaffected ==
  ( /\ pc = "menu"
    /\ op \in SupervisedOps
    /\ flagAtEntry
    /\ Outcome \notin {"none", "cancelled_by_user", "error"} )
    => (cur # None /\ Outcome = Classify(FALSE, crc[cur]))

\* C25: whenever self.process is set it refers to the child of the operation
\* executing; back at the main menu self.process is None.
C25_ProcessIsCurrentChild ==
  /\ pc = "menu" => process = None
  /\ process # None => process = cur

\* C26: when create_disk_image has ended as Cancelled through its cleanup
\* step (terminate, remove the partial image, wait), the child has exited and
\* no file stands at image_path: the child did not create or recreate it
\* after the cleanup removed it.
C26_NoImageAfterCancelCleanup ==
  ( /\ op = "create_disk_image"
    /\ pc \in {"ret", "menu"}
    /\ cleanup
    /\ Outcome = "cancelled" )
    => (cstate[cur] = "reaped" /\ ~imageExists)

\* C27: with a declared total size of 0, a supervised operation that parsed a
\* matching progress line and was not interrupted has derived no percentage,
\* has waited for its child and is classified from the child's exit status.
C27_ZeroTotalNeverAborts ==
  ( /\ pc = "menu"
    /\ op \in SupervisedOps
    /\ total_size = 0
    /\ parsed > 0
    /\ Outcome # "cancelled_by_user" )
    => ( /\ shown = 0
         /\ cur # None
         /\ cstate[cur] = "reaped"
         /\ Outcome = Classify(FALSE, crc[cur]) )

\* C28: format_disk with LUKS selected never returns to the menu with the
\* mapping open: on every path on which cryptsetup open succeeded, cryptsetup
\* close was issued before the return.
C28_MapperClosedOnReturn ==
  (pc = "menu" /\ op \in FormatOps /\ Outcome # "cancelled_by_user") => ~mapperOpen

\* C29: dd.py's create_virtual_disk never returns with a loop device attached
\* and never deletes the image file while a loop device is attached to it.
C29_LoopDetachedOnReturn ==
  op = "dd.py:create_virtual_disk" =>
    /\ (pc = "menu" /\ Outcome # "cancelled_by_user") => ~loopAttached
    /\ loopAttached => vdisk

\* C30: disk_to_disk reaches execute_dd(src, dest) only with a source device
\* different from the destination device.
C30_SourceDiffersFromDestination ==
  step = "execute_dd" => src_disk # dest_disk
====
